---- MODULE Spec2Model ----
(***************************************************************************)
(* Round-elimination voting engine of the ZAO fractal bot:                 *)
(* cogs/fractal/group.py (FractalGroup), cogs/fractal/cog.py (FractalCog,  *)
(* the administrative commands) and cogs/fractal/views.py (the voting      *)
(* buttons).  One session (one FractalGroup registered in                  *)
(* FractalCog.active_groups) is modelled.  Spec runs the handlers one      *)
(* after the other, each to its end.                                       *)
(***************************************************************************)
EXTENDS Integers, Sequences, FiniteSets, TLC

\* ------------------------------------------------------------ bounds
MaxUsers == 3      \* participants of the chat server that may act on the session
MaxVotes == 3      \* votes cast per run
MaxAdmin == 1      \* administrative commands per run
MaxMembers == 8    \* members of a session started with a fixed membership
MaxSpeakers == 3   \* speakers of a presentation timer
MaxTicks == 2      \* clock ticks of one speaker's time (minutes * 60 seconds)
MaxTasks == 3      \* countdown tasks alive at once

\* ------------------------------------------------ program constants
TopLevel == 6      \* FractalGroup.__init__: self.current_level = 6

Users == 1..MaxUsers
None  == 0         \* Python's None (discord.utils.get found nothing; no winner given)

VARIABLES
    members,            \* FractalGroup.members (list)
    active_candidates,  \* FractalGroup.active_candidates (list)
    votes,              \* FractalGroup.votes: voter id -> candidate id (dict)
    winners,            \* FractalGroup.winners: level -> member (dict)
    current_level,      \* FractalGroup.current_level
    paused,             \* FractalGroup.paused: "unset" until admin_pause_fractal adds it
    facilitator,        \* FractalGroup.facilitator
    sibling,            \* another session of the cog, where one is followed
    timer,              \* the PresentationTimer of the channel, where one is followed
    registered,         \* thread.id \in FractalCog.active_groups
    buttons,            \* candidates that have a vote button in some voting message
    final_ranking,      \* the ranking end_fractal posted last
    rankings_lines,     \* the Respect of each line of that ranking, first place first
    started,            \* FractalNameModal.on_submit has run start_fractal
    nvotes,             \* votes cast so far (bounded by MaxVotes)
    nadmin,             \* administrative commands run so far (bounded by MaxAdmin)
    pending,            \* process_vote calls suspended between their write and their check
    last                \* the handler that ran last: [op, a, b, out]

vars == <<members, active_candidates, votes, winners, current_level, paused,
          facilitator, sibling, timer,
          registered, buttons, final_ranking, rankings_lines, started, nvotes,
          nadmin, pending, last>>

\* ------------------------------------------------------------ helpers
Range(s) == {s[i] : i \in DOMAIN s}

\* list.remove(x): drops the first occurrence of x
RemoveAt(s, i) == [j \in 1..(Len(s) - 1) |-> IF j < i THEN s[j] ELSE s[j + 1]]

FirstIndex(s, x) == CHOOSE i \in 1..Len(s) : s[i] = x /\ \A j \in 1..(i - 1) : s[j] # x

ListRemove(s, x) == IF x \in Range(s) THEN RemoveAt(s, FirstIndex(s, x)) ELSE s

\* dict[k] = v
Put(f, k, v) == [x \in DOMAIN f \cup {k} |-> IF x = k THEN v ELSE f[x]]

\* del dict[k]
Del(f, k) == [x \in DOMAIN f \ {k} |-> f[x]]

EmptyDict == [x \in {} |-> None]

MaxOf(S) == CHOOSE m \in S : \A x \in S : x <= m

\* The session as one value: the handlers below are functions on it.
Group == [members |-> members, active_candidates |-> active_candidates,
          votes |-> votes, winners |-> winners, current_level |-> current_level,
          paused |-> paused, facilitator |-> facilitator,
          registered |-> registered, buttons |-> buttons,
          final_ranking |-> final_ranking, rankings_lines |-> rankings_lines]

\* No other session is followed.
NoSibling == [shares_members |-> FALSE]

\* No presentation timer is followed.
NoTimer == [started |-> FALSE]

\* FractalGroup.__init__ keeps the list it is given (self.members = members):
\* a session built from the same list sees every append and remove.
Commit(g) ==
    /\ members' = g.members
    /\ sibling' = IF sibling.shares_members
                  THEN [sibling EXCEPT !.group.members = g.members]
                  ELSE sibling
    /\ timer' = timer
    /\ active_candidates' = g.active_candidates
    /\ votes' = g.votes
    /\ winners' = g.winners
    /\ current_level' = g.current_level
    /\ paused' = g.paused
    /\ facilitator' = g.facilitator
    /\ registered' = g.registered
    /\ buttons' = g.buttons
    /\ final_ranking' = g.final_ranking
    /\ rankings_lines' = g.rankings_lines

\* ------------------------------------------------------ FractalGroup

\* get_vote_threshold with the half rounded down (the "+ len % 2" left out)
get_vote_threshold_floor(g) ==
    LET t == Len(g.members) \div 2
    IN IF t > 1 THEN t ELSE 1

\* get_vote_threshold asking for more than half of the members
get_vote_threshold_strict(g) == (Len(g.members) \div 2) + 1

\* get_vote_threshold computed from the active pool instead of the membership
get_vote_threshold_pool(g) ==
    LET n == Len(g.active_candidates)
        t == (n \div 2) + (n % 2)
    IN IF t > 1 THEN t ELSE 1

\* get_vote_threshold: max(1, len(members) // 2 + len(members) % 2)
get_vote_threshold(g) ==
    LET n == Len(g.members)
        t == (n \div 2) + (n % 2)
    IN IF t > 1 THEN t ELSE 1

\* end_fractal's ranking: the winners by descending level
RECURSIVE RankingOf(_, _)
RankingOf(w, levels) ==
    IF levels = {} THEN <<>>
    ELSE LET top == MaxOf(levels)
         IN <<w[top]>> \o RankingOf(w, levels \ {top})

\* config.py: RESPECT_POINTS
RESPECT_POINTS == <<110, 68, 42, 26, 16, 10>>

\* the lookup with every place past the table given the table's last entry
respect_last_repeats(i) ==
    IF i < Len(RESPECT_POINTS) THEN RESPECT_POINTS[i + 1]
    ELSE RESPECT_POINTS[Len(RESPECT_POINTS)]

\* fibonacci[i] if i < len(fibonacci) else 0, with i counted from 0
respect(i) == IF i < Len(RESPECT_POINTS) THEN RESPECT_POINTS[i + 1] ELSE 0

\* end_fractal that leaves the last candidate out of the winners
end_fractal_drops_last(g) ==
    [g EXCEPT !.final_ranking = RankingOf(g.winners, DOMAIN g.winners),
              !.rankings_lines = [i \in 1..Cardinality(DOMAIN g.winners) |-> respect(i - 1)],
              !.registered = FALSE]

\* end_fractal: the last candidate takes the current level, the ranking is
\* posted with the Respect of each place, the group leaves active_groups
end_fractal(g) ==
    LET w == IF Len(g.active_candidates) = 1
             THEN Put(g.winners, g.current_level, g.active_candidates[1])
             ELSE g.winners
    IN [g EXCEPT !.winners = w,
                 !.final_ranking = RankingOf(w, DOMAIN w),
                 !.rankings_lines = [i \in 1..Cardinality(DOMAIN w) |-> respect(i - 1)],
                 !.registered = FALSE]

\* record_winner with the level dropped before the winner is recorded
record_winner_late(g, winner) ==
    [g EXCEPT !.winners = Put(@, g.current_level - 1, winner),
              !.active_candidates = ListRemove(@, winner),
              !.current_level = @ - 1]

\* record_winner with the winner left in the pool
record_winner_keeps_pool(g, winner) ==
    [g EXCEPT !.winners = Put(@, g.current_level, winner),
              !.current_level = @ - 1]

\* record_winner with the level left where it was
record_winner_keeps_level(g, winner) ==
    [g EXCEPT !.winners = Put(@, g.current_level, winner),
              !.active_candidates = ListRemove(@, winner)]

\* start_new_round, lines 62-65: the previous winner is recorded, leaves the
\* pool, and the level drops.  list.remove raises ValueError for a winner
\* that is not in the pool; every caller below passes a member of the pool.
record_winner(g, winner) ==
    [g EXCEPT !.winners = Put(@, g.current_level, winner),
              !.active_candidates = ListRemove(@, winner),
              !.current_level = @ - 1]

\* the end test asking for an empty pool
reached_end_empty_pool(g) == g.current_level < 1 \/ Len(g.active_candidates) < 1

\* start_new_round, lines 73-76: the test that ends the session
reached_end(g) == g.current_level < 1 \/ Len(g.active_candidates) <= 1

\* start_new_round, lines 78-105: the ledger is reset and a voting message
\* with one button per active candidate is posted
open_round(g) ==
    [g EXCEPT !.votes = EmptyDict,
              !.buttons = @ \cup Range(g.active_candidates)]

start_new_round(g, winner) ==
    LET g1 == IF winner # None THEN record_winner(g, winner) ELSE g
    IN IF reached_end(g1) THEN end_fractal(g1) ELSE open_round(g1)

\* check_for_winner, lines 198-207
vote_counts(g) ==
    [c \in Range(g.votes) |-> Cardinality({v \in DOMAIN g.votes : g.votes[v] = c})]

max_votes(g) ==
    IF DOMAIN g.votes = {} THEN 0 ELSE MaxOf(Range(vote_counts(g)))

winners_with_max_votes(g) ==
    {c \in DOMAIN vote_counts(g) : vote_counts(g)[c] = max_votes(g)}

\* the lookup taking the id for a member without searching the pool
get_active_unchecked(g, id) == id

\* discord.utils.get(active_candidates, id=winner_id)
get_active(g, id) == IF id \in Range(g.active_candidates) THEN id ELSE None

\* check_for_winner: the sessions it can leave (random.choice on a tie)
check_for_winner(g) ==
    IF max_votes(g) >= get_vote_threshold(g)
    THEN {IF get_active(g, winner_id) # None
          THEN start_new_round(g, get_active(g, winner_id))
          ELSE g : winner_id \in winners_with_max_votes(g)}
    ELSE {g}

\* process_vote, line 178: self.votes[voter.id] = candidate.id
write_vote(g, voter, candidate) == [g EXCEPT !.votes = Put(@, voter, candidate)]

process_vote(g, voter, candidate) == check_for_winner(write_vote(g, voter, candidate))

\* ------------------------------------------------------------ actions

Init ==
    /\ \E n \in 1..MaxUsers : members = [i \in 1..n |-> i]
    /\ active_candidates = members
    /\ votes = EmptyDict
    /\ winners = EmptyDict
    /\ current_level = TopLevel
    /\ paused = "unset"
    /\ facilitator = 1
    /\ sibling = NoSibling
    /\ timer = NoTimer
    /\ registered = TRUE
    /\ buttons = {}
    /\ final_ranking = <<>>
    /\ rankings_lines = <<>>
    /\ started = FALSE
    /\ nvotes = 0
    /\ nadmin = 0
    /\ pending = {}
    /\ last = [op |-> "init", a |-> None, b |-> None, out |-> "ok"]

\* FractalNameModal.on_submit -> FractalGroup.start_fractal
StartFractal ==
    /\ ~started
    /\ started' = TRUE
    /\ Commit(start_new_round(Group, None))
    /\ last' = [op |-> "start_fractal", a |-> None, b |-> None, out |-> "ok"]
    /\ UNCHANGED <<nvotes, nadmin, pending>>

\* ZAOFractalVotingView.vote_callback: any user that sees a voting message of
\* the thread may press any of its buttons
CastVote ==
    /\ started
    /\ nvotes < MaxVotes
    /\ \E voter \in Users, candidate \in buttons :
         \E g \in process_vote(Group, voter, candidate) :
            /\ Commit(g)
            /\ last' = [op |-> "process_vote", a |-> voter, b |-> candidate, out |-> "ok"]
    /\ nvotes' = nvotes + 1
    /\ UNCHANGED <<started, nadmin, pending>>

\* Every administrative command looks the group up in active_groups first
\* ("No active fractal found with that thread ID" otherwise).
AdminGuard ==
    /\ started
    /\ registered
    /\ nadmin < MaxAdmin

Admin(g, op, a, out) ==
    /\ Commit(g)
    /\ last' = [op |-> op, a |-> a, b |-> None, out |-> out]
    /\ nadmin' = nadmin + 1
    /\ UNCHANGED <<started, nvotes, pending>>

\* admin_force_round, lines 283-295: the winner it picks; None when the
\* leading tally names nobody of the pool
force_round_picks(g) ==
    IF DOMAIN g.votes # {}
    THEN {get_active(g, winner_id) : winner_id \in winners_with_max_votes(g)}
    ELSE Range(g.active_candidates)

\* admin_force_round: winner.mention on None and random.choice on an empty
\* pool raise, and the handler's except clause reports the error
AdminForceRound ==
    /\ AdminGuard
    /\ IF force_round_picks(Group) = {}
       THEN Admin(Group, "admin_force_round", None, "error")
       ELSE \E winner \in force_round_picks(Group) :
              IF winner = None
              THEN Admin(Group, "admin_force_round", None, "error")
              ELSE Admin(start_new_round(Group, winner), "admin_force_round", winner, "ok")

\* reset_votes that also lifts the pause
reset_votes_unpauses(g) == [g EXCEPT !.votes = EmptyDict, !.paused = "false"]

\* admin_reset_votes: group.votes = {}
reset_votes(g) == [g EXCEPT !.votes = EmptyDict]

AdminResetVotes ==
    /\ AdminGuard
    /\ Admin(reset_votes(Group), "admin_reset_votes", None, "ok")

\* admin_declare_winner
AdminDeclareWinner ==
    /\ AdminGuard
    /\ \E user \in Users :
         IF user \notin Range(active_candidates)
         THEN Admin(Group, "admin_declare_winner", user, "rejected")
         ELSE Admin(start_new_round(Group, user), "admin_declare_winner", user, "ok")

\* admin_add_member, lines 400-402
add_member(g, user) ==
    [g EXCEPT !.members = Append(@, user),
              !.active_candidates = Append(@, user)]

AdminAddMember ==
    /\ AdminGuard
    /\ \E user \in Users :
         IF user \in Range(members)
         THEN Admin(Group, "admin_add_member", user, "rejected")
         ELSE Admin(add_member(Group, user), "admin_add_member", user, "ok")

\* admin_remove_member, lines 444-452
remove_member(g, user) ==
    [g EXCEPT !.members = ListRemove(@, user),
              !.active_candidates = ListRemove(@, user),
              !.votes = IF user \in DOMAIN @ THEN Del(@, user) ELSE @]

AdminRemoveMember ==
    /\ AdminGuard
    /\ \E user \in Users :
         IF user \notin Range(members)
         THEN Admin(Group, "admin_remove_member", user, "rejected")
         ELSE Admin(remove_member(Group, user), "admin_remove_member", user, "ok")

\* admin_pause_fractal: the paused attribute is added on first use
AdminPauseFractal ==
    /\ AdminGuard
    /\ IF paused = "true"
       THEN Admin(Group, "admin_pause_fractal", None, "rejected")
       ELSE Admin([Group EXCEPT !.paused = "true"], "admin_pause_fractal", None, "ok")

\* admin_resume_fractal
AdminResumeFractal ==
    /\ AdminGuard
    /\ IF paused # "true"
       THEN Admin(Group, "admin_resume_fractal", None, "rejected")
       ELSE Admin([Group EXCEPT !.paused = "false"], "admin_resume_fractal", None, "ok")

\* restart that keeps the winners recorded so far
restart_keeps_winners(g) ==
    start_new_round([g EXCEPT !.current_level = TopLevel,
                              !.votes = EmptyDict,
                              !.active_candidates = g.members,
                              !.paused = IF @ = "unset" THEN @ ELSE "false"],
                    None)

\* admin_restart_fractal, lines 598-609
restart(g) ==
    start_new_round([g EXCEPT !.current_level = TopLevel,
                              !.votes = EmptyDict,
                              !.winners = EmptyDict,
                              !.active_candidates = g.members,
                              !.paused = IF @ = "unset" THEN @ ELSE "false"],
                    None)

AdminRestartFractal ==
    /\ AdminGuard
    /\ Admin(restart(Group), "admin_restart_fractal", None, "ok")

\* admin_end_fractal with a thread id: group.end_fractal()
AdminEndFractal ==
    /\ AdminGuard
    /\ Admin(end_fractal(Group), "admin_end_fractal", None, "ok")

Next ==
    \/ StartFractal
    \/ CastVote
    \/ AdminForceRound
    \/ AdminResetVotes
    \/ AdminDeclareWinner
    \/ AdminAddMember
    \/ AdminRemoveMember
    \/ AdminPauseFractal
    \/ AdminResumeFractal
    \/ AdminRestartFractal
    \/ AdminEndFractal

Spec == Init /\ [][Next]_vars

\* ------------------------------------------------------------ claims
\* The claims speak of the ledger's tally and of threshold(len(members));
\* they are stated with the definitions below, not with the handlers' own.

\* votes a candidate holds in ledger vs
Tally(vs, c) == Cardinality({v \in DOMAIN vs : vs[v] = c})

HighestTally(vs) ==
    IF DOMAIN vs = {} THEN 0 ELSE MaxOf({Tally(vs, vs[v]) : v \in DOMAIN vs})

Leaders(vs) == {c \in Range(vs) : Tally(vs, c) = HighestTally(vs)}

\* threshold(N) = N // 2 + N % 2, at least 1
Threshold(n) == IF (n \div 2) + (n % 2) >= 1 THEN (n \div 2) + (n % 2) ELSE 1

\* the ledger right after the write of the vote that the step (last') cast
LedgerAfterWrite == Put(votes, last'.a, last'.b)

VoteStep == last'.op = "process_vote"

\* a vote cast on a session that is in the registry
LiveVoteStep == VoteStep /\ registered

SessionUnchanged ==
    /\ members' = members
    /\ active_candidates' = active_candidates
    /\ votes' = votes
    /\ winners' = winners
    /\ current_level' = current_level

\* C1: after a vote is processed, a highest tally >= threshold(len(members))
\* held by exactly one candidate makes that candidate the winner of the
\* current level: recorded, out of the active pool, level down by one.
C1_UniqueLeaderWins ==
    [][(LiveVoteStep /\ HighestTally(LedgerAfterWrite) >= Threshold(Len(members))
                     /\ Cardinality(Leaders(LedgerAfterWrite)) = 1)
        => \E c \in Leaders(LedgerAfterWrite) :
              /\ current_level \in DOMAIN winners'
              /\ winners'[current_level] = c
              /\ c \notin Range(active_candidates')
              /\ current_level' = current_level - 1]_vars

\* C2: after a vote is processed, a highest tally below threshold(len(members))
\* resolves nothing: level, pool and winners stay, the ledger keeps the vote
\* and the session stays registered.
C2_BelowThresholdStaysOpen ==
    [][(VoteStep /\ HighestTally(LedgerAfterWrite) < Threshold(Len(members)))
        => /\ current_level' = current_level
           /\ active_candidates' = active_candidates
           /\ winners' = winners
           /\ members' = members
           /\ votes' = LedgerAfterWrite
           /\ registered' = registered
           /\ final_ranking' = final_ranking]_vars

\* C2's case: three members, level 6, each voted for a different candidate
C2_Witness ==
    /\ last.op = "process_vote"
    /\ Len(members) = 3
    /\ DOMAIN votes = Range(members)
    /\ Cardinality(Range(votes)) = 3
    /\ current_level = TopLevel
    /\ winners = EmptyDict
    /\ Len(active_candidates) = 3
    /\ registered

\* C3: while the session is paused a vote is rejected: ledger, level, pool
\* and winners are as before.
C3_PausedVoteRejected ==
    [][(LiveVoteStep /\ paused = "true") => SessionUnchanged]_vars

\* C4: a vote for a candidate outside the active pool is rejected: nothing
\* changes and the ledger gets no entry for that candidate.
C4_StaleCandidateRejected ==
    [][(LiveVoteStep /\ last'.b \notin Range(active_candidates))
        => SessionUnchanged /\ last'.b \notin Range(votes')]_vars

\* C5: every voter of the ledger is a current member.
C5_VotersAreMembers ==
    (started /\ registered) => DOMAIN votes \subseteq Range(members)

\* C6: every candidate voted for in the ledger is in the active pool.
C6_VotedAreActive ==
    (started /\ registered) => Range(votes) \subseteq Range(active_candidates)

\* C7: pool + winners = members once a winner is recorded, pool = members
\* before.
C7_PoolWinnersMembers ==
    (started /\ registered) =>
        IF DOMAIN winners # {}
        THEN Len(active_candidates) + Cardinality(DOMAIN winners) = Len(members)
        ELSE Len(active_candidates) = Len(members)

\* C8: the level changes only by -1, in a step that records a participant of
\* the pool as winner of the level left and takes it out of the pool; or by
\* admin_restart_fractal, which sets it to 6.
C8_LevelMonotone ==
    [][current_level' # current_level =>
        \/ last'.op = "admin_restart_fractal" /\ current_level' = TopLevel
        \/ /\ current_level' = current_level - 1
           /\ current_level \in DOMAIN winners'
           /\ winners'[current_level] \in Range(active_candidates)
           /\ winners'[current_level] \notin Range(active_candidates')]_vars

\* C8's case: a vote resolved level 6 and the session went on at level 5
C8_Witness ==
    /\ last.op = "process_vote"
    /\ current_level = TopLevel - 1
    /\ TopLevel \in DOMAIN winners
    /\ votes = EmptyDict
    /\ registered

\* an advance: a vote that resolved the round, or a forced round that went
\* through
AdvanceStep ==
    \/ current_level' = current_level - 1
    \/ /\ last'.op \in {"admin_force_round", "admin_declare_winner"}
       /\ last'.out = "ok"
       /\ last' # last

\* C9: every advance takes exactly one participant out of the pool, the
\* winner recorded for the level left.
C9_AdvanceShrinksPool ==
    [][AdvanceStep =>
        /\ current_level' = current_level - 1
        /\ Len(active_candidates') = Len(active_candidates) - 1
        /\ current_level \in DOMAIN winners'
        /\ winners'[current_level] \in Range(active_candidates)
        /\ active_candidates' = ListRemove(active_candidates, winners'[current_level])]_vars

\* C9's case: a forced advance at level 6 of a three-member session
C9_Witness ==
    /\ last.op = "admin_declare_winner"
    /\ last.out = "ok"
    /\ Len(members) = 3
    /\ Len(active_candidates) = 2
    /\ winners = (TopLevel :> last.a)
    /\ last.a \notin Range(active_candidates)

\* C10: a session is completed (out of the registry) iff level < 1 or at most
\* one candidate is left.
C10_NoActiveSessionAtEnd ==
    (started /\ registered) => ~(current_level < 1 \/ Len(active_candidates) <= 1)

C10_NoEarlyCompletion ==
    (started /\ ~registered) => (current_level < 1 \/ Len(active_candidates) <= 1)

C10_CompletedIffEnded == C10_NoActiveSessionAtEnd /\ C10_NoEarlyCompletion

\* ------------------------------------------- fixed-membership sessions
\* SpecRounds: a session of up to MaxMembers members that is started and
\* then only advanced, by votes of its members and by admin_declare_winner;
\* no membership change, no restart, no termination.

\* FractalNameModal.on_submit with a confirmation view of n members
InitRounds ==
    /\ \E n \in 1..MaxMembers : members = [i \in 1..n |-> i]
    /\ active_candidates = members
    /\ votes = EmptyDict
    /\ winners = EmptyDict
    /\ current_level = TopLevel
    /\ paused = "unset"
    /\ facilitator = 1
    /\ sibling = NoSibling
    /\ timer = NoTimer
    /\ registered = TRUE
    /\ buttons = {}
    /\ final_ranking = <<>>
    /\ rankings_lines = <<>>
    /\ started = FALSE
    /\ nvotes = 0
    /\ nadmin = 0
    /\ pending = {}
    /\ last = [op |-> "init", a |-> None, b |-> None, out |-> "ok"]

\* vote_callback of the current voting message; the runs explored are those
\* in which the members vote in list order for the head of the pool
RoundVote ==
    /\ started
    /\ registered
    /\ \E voter \in Range(members) :
         /\ voter \notin DOMAIN votes
         /\ \A earlier \in Range(members) : earlier < voter => earlier \in DOMAIN votes
         /\ \E g \in process_vote(Group, voter, active_candidates[1]) :
              /\ Commit(g)
              /\ last' = [op |-> "process_vote", a |-> voter,
                          b |-> active_candidates[1], out |-> "ok"]
    /\ UNCHANGED <<started, nvotes, nadmin, pending>>

\* admin_declare_winner on the registered group; the runs explored are those
\* in which the user named is an active candidate (Spec has the rejections)
RoundDeclareWinner ==
    /\ started
    /\ registered
    /\ \E user \in Range(active_candidates) :
         /\ Commit(start_new_round(Group, user))
         /\ last' = [op |-> "admin_declare_winner", a |-> user,
                     b |-> None, out |-> "ok"]
    /\ UNCHANGED <<started, nvotes, nadmin, pending>>

NextRounds ==
    \/ StartFractal
    \/ RoundVote
    \/ RoundDeclareWinner

SpecRounds == InitRounds /\ [][NextRounds]_vars

\* rounds resolved so far in a run of SpecRounds: each resolved round lowers
\* the level by one and nothing raises it
RoundsResolved == TopLevel - current_level

\* C11: a session of M members (no membership change, no restart) is
\* completed after exactly M - 1 resolved rounds, and then all M members are
\* ranked, the last one without a vote.
C11_CompletesAfterAllButOne ==
    (started /\ ~registered) =>
        /\ RoundsResolved = Len(members) - 1
        /\ Len(final_ranking) = Len(members)
        /\ Range(final_ranking) = Range(members)

\* a session completes: a round advance finds the end reached and end_fractal
\* posts the ranking (admin_end_fractal is the termination, not a completion)
CompletionStep ==
    /\ registered
    /\ ~registered'
    /\ last'.op # "admin_end_fractal"

\* entry i of ranking r is the winner of the i-th highest level of w
ByDescendingLevel(r, w) ==
    /\ Len(r) = Cardinality(DOMAIN w)
    /\ \A i \in 1..Len(r) :
         \E l \in DOMAIN w :
            /\ w[l] = r[i]
            /\ Cardinality({k \in DOMAIN w : k > l}) = i - 1

\* C12: the ranking built when the session completes has exactly one entry
\* per member, all entries distinct, in strictly decreasing level order,
\* whatever administrative operations came before.
C12_RankingCoversMembers ==
    [][CompletionStep =>
         /\ Len(final_ranking') = Len(members')
         /\ Cardinality(Range(final_ranking')) = Len(final_ranking')
         /\ ByDescendingLevel(final_ranking', winners')]_vars

\* --------------------------------------------- get_vote_threshold alone
\* SpecThreshold: get_vote_threshold called on the sessions that a start and
\* forced advances produce from 0..MaxMembers members (the member list is
\* whatever the confirmation view holds; the constructor accepts any list).
InitThreshold ==
    /\ \E n \in 0..MaxMembers : members = [i \in 1..n |-> i]
    /\ active_candidates = members
    /\ votes = EmptyDict
    /\ winners = EmptyDict
    /\ current_level = TopLevel
    /\ paused = "unset"
    /\ facilitator = 1
    /\ sibling = NoSibling
    /\ timer = NoTimer
    /\ registered = TRUE
    /\ buttons = {}
    /\ final_ranking = <<>>
    /\ rankings_lines = <<>>
    /\ started = FALSE
    /\ nvotes = 0
    /\ nadmin = 0
    /\ pending = {}
    /\ last = [op |-> "init", a |-> None, b |-> None, out |-> "ok"]

\* a call of group.get_vote_threshold(); last.out keeps the value returned
ThresholdCall ==
    /\ last' = [op |-> "get_vote_threshold", a |-> None, b |-> None,
                out |-> get_vote_threshold(Group)]
    /\ UNCHANGED <<members, active_candidates, votes, winners, current_level,
                   paused, facilitator, sibling, timer, registered, buttons,
                   final_ranking, rankings_lines,
                   started, nvotes, nadmin, pending>>

NextThreshold ==
    \/ StartFractal
    \/ RoundDeclareWinner
    \/ ThresholdCall

SpecThreshold == InitThreshold /\ [][NextThreshold]_vars

\* C13: with N >= 1 members get_vote_threshold returns N div 2 + N mod 2,
\* which is at least 1; with no member it returns 1; the size of the active
\* pool plays no part.
C13_ThresholdOfMembership ==
    last.op = "get_vote_threshold" =>
        LET N == Len(members)
        IN /\ N >= 1 => (last.out = (N \div 2) + (N % 2) /\ last.out >= 1)
           /\ N = 0 => last.out = 1

\* the threshold of 8 members asked for while 3 candidates are left
C13_Witness ==
    /\ last.op = "get_vote_threshold"
    /\ Len(members) = 8
    /\ Len(active_candidates) = 3
    /\ last.out = 4

\* the threshold asked for on a session without members
C13_WitnessEmpty ==
    /\ last.op = "get_vote_threshold"
    /\ members = <<>>
    /\ last.out = 1

\* a vote handler runs right after a vote handler of the same voter for the
\* same candidate, on a session that is still registered
RepeatedVoteStep ==
    /\ last.op = "process_vote"
    /\ VoteStep
    /\ nvotes' = nvotes + 1
    /\ last'.a = last.a
    /\ last'.b = last.b
    /\ registered

\* C14: casting the same vote a second time leaves the session as the first
\* cast left it (ledger, tally, level, pool, winners), also when the first
\* cast resolved the round.
C14_RepeatedVoteIdempotent ==
    [][RepeatedVoteStep => SessionUnchanged /\ registered' = registered]_vars

\* ------------------------------------------------ handlers that overlap
\* SpecAsync: process_vote is a coroutine.  After the ledger write (line 178)
\* it awaits web_integration.notify_vote_cast and thread.send (lines 181-191)
\* and only then calls check_for_winner (line 194); while it is suspended the
\* event loop runs other handlers.  The vote handler is therefore split in
\* two steps; the administrative commands run as in Spec.

\* process_vote up to its first await; written keeps the ledger as this
\* write left it
VoteWrite ==
    /\ started
    /\ nvotes < MaxVotes
    /\ \E voter \in Users, candidate \in buttons :
         /\ Commit(write_vote(Group, voter, candidate))
         /\ pending' = pending \cup
                {[voter |-> voter, candidate |-> candidate,
                  written |-> Put(votes, voter, candidate)]}
         /\ last' = [op |-> "write_vote", a |-> voter, b |-> candidate, out |-> "ok"]
    /\ nvotes' = nvotes + 1
    /\ UNCHANGED <<started, nadmin>>

\* process_vote resumed: check_for_winner on the session as it is now
VoteCheck ==
    /\ \E p \in pending :
         /\ \E g \in check_for_winner(Group) : Commit(g)
         /\ pending' = pending \ {p}
         /\ last' = [op |-> "check_for_winner", a |-> p.voter,
                     b |-> p.candidate, out |-> "ok"]
    /\ UNCHANGED <<started, nvotes, nadmin>>

NextAsync ==
    \/ StartFractal
    \/ VoteWrite
    \/ VoteCheck
    \/ AdminForceRound
    \/ AdminResetVotes
    \/ AdminDeclareWinner
    \/ AdminAddMember
    \/ AdminRemoveMember
    \/ AdminPauseFractal
    \/ AdminResumeFractal
    \/ AdminRestartFractal
    \/ AdminEndFractal

SpecAsync == Init /\ [][NextAsync]_vars

\* a suspended process_vote resumes and runs its resolution check
CheckStep ==
    /\ last'.op = "check_for_winner"
    /\ pending' # pending

\* C15: nothing runs between a vote's ledger write and that vote's
\* resolution check: the ledger the check counts is the ledger as that
\* vote's write left it.
C15_CheckSeesOwnWrite ==
    [][CheckStep => \E p \in pending \ pending' : votes = p.written]_vars

\* a vote handler runs on a session that has completed or been terminated
LateVoteStep ==
    /\ VoteStep
    /\ nvotes' = nvotes + 1
    /\ ~registered

\* C16: after the session has completed or been terminated a vote (through a
\* voting message that is still visible) changes neither ledger, level, pool
\* nor winners, resolves no round and posts no second ranking.
C16_LateVoteChangesNothing ==
    [][LateVoteStep => SessionUnchanged /\ final_ranking' = final_ranking]_vars

\* admin_declare_winner has run for a user of the active pool
DeclareStep ==
    /\ last'.op = "admin_declare_winner"
    /\ last'.out = "ok"
    /\ nadmin' = nadmin + 1

\* C17: admin_declare_winner for a candidate C of the active pool records C
\* as the winner of the current level whatever the tally is, empties the
\* ledger and lowers the level by one.
C17_DeclaredWinnerAdvances ==
    [][DeclareStep =>
         /\ current_level \in DOMAIN winners'
         /\ winners'[current_level] = last'.a
         /\ current_level' = current_level - 1
         /\ votes' = EmptyDict]_vars

\* admin_force_round or admin_declare_winner has run
ForceStep ==
    /\ last'.op \in {"admin_force_round", "admin_declare_winner"}
    /\ nadmin' = nadmin + 1

\* the levels whose winner entry the step wrote
LevelsWritten == {l \in DOMAIN winners' : l \notin DOMAIN winners \/ winners'[l] # winners[l]}

RemoveStep ==
    /\ last'.op = "admin_remove_member"
    /\ last'.out = "ok"
    /\ nadmin' = nadmin + 1

\* C19: after admin_remove_member(p), p is neither a member nor an active
\* candidate, and the ledger holds no vote cast by p and no vote cast for p.
C19_RemovedMemberPurged ==
    [][RemoveStep =>
         /\ last'.a \notin Range(members')
         /\ last'.a \notin Range(active_candidates')
         /\ last'.a \notin DOMAIN votes'
         /\ last'.a \notin Range(votes')]_vars

\* ------------------------------------------ sessions under administration
\* SpecRestart: votes (at most MaxVotes) and any number of the commands
\* admin_pause_fractal, admin_resume_fractal, admin_remove_member,
\* admin_reset_votes and admin_restart_fractal on the registered session.

\* the command finds the group in active_groups
CommandGuard ==
    /\ started
    /\ registered

\* an administrative command carried out, not counted
Command(g, op, a, out) ==
    /\ Commit(g)
    /\ last' = [op |-> op, a |-> a, b |-> None, out |-> out]
    /\ UNCHANGED <<started, nvotes, nadmin, pending>>

\* admin_pause_fractal that also discards the votes of the round
PauseFractalDropsVotes ==
    /\ CommandGuard
    /\ IF paused = "true"
       THEN Command(Group, "admin_pause_fractal", None, "rejected")
       ELSE Command([Group EXCEPT !.paused = "true", !.votes = EmptyDict],
                    "admin_pause_fractal", None, "ok")

PauseFractal ==
    /\ CommandGuard
    /\ IF paused = "true"
       THEN Command(Group, "admin_pause_fractal", None, "rejected")
       ELSE Command([Group EXCEPT !.paused = "true"], "admin_pause_fractal", None, "ok")

ResumeFractal ==
    /\ CommandGuard
    /\ IF paused # "true"
       THEN Command(Group, "admin_resume_fractal", None, "rejected")
       ELSE Command([Group EXCEPT !.paused = "false"], "admin_resume_fractal", None, "ok")

RemoveMember ==
    /\ CommandGuard
    /\ \E user \in Users :
         IF user \notin Range(members)
         THEN Command(Group, "admin_remove_member", user, "rejected")
         ELSE Command(remove_member(Group, user), "admin_remove_member", user, "ok")

ResetVotes ==
    /\ CommandGuard
    /\ Command(reset_votes(Group), "admin_reset_votes", None, "ok")

RestartFractal ==
    /\ CommandGuard
    /\ Command(restart(Group), "admin_restart_fractal", None, "ok")

NextRestart ==
    \/ StartFractal
    \/ CastVote
    \/ PauseFractal
    \/ ResumeFractal
    \/ RemoveMember
    \/ ResetVotes
    \/ RestartFractal

SpecRestart == Init /\ [][NextRestart]_vars

\* admin_restart_fractal has run
RestartStep == last'.op = "admin_restart_fractal"

\* C20: admin_restart_fractal on a registered session, whatever its state,
\* sets the level to 6, the active pool to the current membership, empties
\* ledger and winners and leaves the session not paused; with two or more
\* members voting is reopened at level 6, with at most one member the
\* session completes at once (the one member, if any, ranked at level 6).
C20_RestartResets ==
    [][RestartStep =>
         /\ current_level' = TopLevel
         /\ members' = members
         /\ active_candidates' = members
         /\ votes' = EmptyDict
         /\ paused' # "true"
         /\ IF Len(members) <= 1
            THEN /\ ~registered'
                 /\ final_ranking' = members
                 /\ winners' = [l \in {TopLevel : i \in DOMAIN members} |-> members[1]]
            ELSE /\ registered'
                 /\ winners' = EmptyDict
                 /\ Range(members) \subseteq buttons']_vars

\* a paused session of three that lost a member and had votes cast has been
\* restarted
C20_Witness ==
    /\ last.op = "admin_restart_fractal"
    /\ paused = "false"
    /\ registered
    /\ Len(members) = 2
    /\ buttons = 1..3
    /\ nvotes >= 2
    /\ current_level = TopLevel
    /\ winners = EmptyDict
    /\ votes = EmptyDict

\* a session left with one member has been restarted and completed at once
C20_WitnessLastMember ==
    /\ last.op = "admin_restart_fractal"
    /\ Len(members) = 1
    /\ ~registered
    /\ final_ranking = members

\* admin_reset_votes has run
ResetStep == last'.op = "admin_reset_votes"

\* C21: admin_reset_votes empties the ledger and leaves level, active pool,
\* members, winners and the paused flag as they were.
C21_ResetVotesFrame ==
    [][ResetStep =>
         /\ votes' = EmptyDict
         /\ current_level' = current_level
         /\ active_candidates' = active_candidates
         /\ members' = members
         /\ winners' = winners
         /\ paused' = paused
         /\ registered' = registered]_vars

\* the votes of a paused level-5 round (one winner recorded, a third vote in
\* the ledger) have been reset
C21_Witness ==
    /\ last.op = "admin_reset_votes"
    /\ paused = "true"
    /\ Len(members) = 3
    /\ DOMAIN winners = {TopLevel}
    /\ current_level = TopLevel - 1
    /\ nvotes = 3
    /\ votes = EmptyDict

\* admin_end_fractal has run on the registered session
TerminateStep ==
    /\ last'.op = "admin_end_fractal"
    /\ nadmin' = nadmin + 1

\* C22: terminating a session takes it out of the registry without
\* completing it: no ranking is computed or posted and the termination
\* records no winner.
C22_TerminateWithoutRanking ==
    [][TerminateStep =>
         /\ ~registered'
         /\ final_ranking' = final_ranking
         /\ winners' = winners]_vars

\* --------------------------------------------- announcements that fail
\* SpecNotify: the votes of SpecAsync, where the awaited thread.send of
\* process_vote (lines 184-191) may raise (discord.HTTPException).  The
\* exception leaves process_vote at once and is caught by vote_callback
\* (views.py lines 64-69), which reports an error to the voter.

\* process_vote resumed with an exception: the call ends without reaching
\* check_for_winner
VoteAnnounceFails ==
    /\ \E p \in pending :
         /\ Commit(Group)
         /\ pending' = pending \ {p}
         /\ last' = [op |-> "process_vote", a |-> p.voter,
                     b |-> p.candidate, out |-> "error"]
    /\ UNCHANGED <<started, nvotes, nadmin>>

NextNotify ==
    \/ StartFractal
    \/ VoteWrite
    \/ VoteCheck
    \/ VoteAnnounceFails

SpecNotify == Init /\ [][NextNotify]_vars

\* a process_vote call comes to its end
VoteEndStep == \E p \in pending : pending' = pending \ {p}

\* the ledger qualifies for a resolution: the highest tally meets the
\* threshold and its leaders are active candidates
Qualifies(vs) ==
    /\ HighestTally(vs) >= Threshold(Len(members))
    /\ Leaders(vs) \subseteq Range(active_candidates)

\* C23: whether or not the vote's announcement fails, the vote stays in the
\* ledger and its resolution check runs: a call that ends on a registered
\* session whose ledger qualifies has resolved the round.
C23_CheckRunsDespiteFailure ==
    [][(VoteEndStep /\ registered /\ Qualifies(votes))
          => current_level' = current_level - 1]_vars

\* the vote of voter for candidate on the session as it is leaves more than
\* one candidate at the highest tally, and that tally meets the threshold
TieAfter(voter, candidate) ==
    LET vs == Put(votes, voter, candidate)
    IN /\ HighestTally(vs) >= Threshold(Len(members))
       /\ Cardinality(Leaders(vs)) > 1

\* C24: when a vote on a registered session leaves several candidates tied
\* at a tally that meets the threshold, a winner recorded by the resolution
\* is one of the tied candidates, and each tied candidate is a winner the
\* tie-break can record.
C24_TieBreakAmongTied ==
    (started /\ registered) =>
        \A voter \in Users, candidate \in buttons :
           TieAfter(voter, candidate) =>
              LET tied == Leaders(Put(votes, voter, candidate))
                  outcomes == process_vote(Group, voter, candidate)
              IN /\ \A g \in outcomes :
                       g.current_level # current_level
                          => g.winners[current_level] \in tied
                 /\ \A c \in tied :
                       \E g \in outcomes :
                          /\ g.current_level = current_level - 1
                          /\ current_level \in DOMAIN g.winners
                          /\ g.winners[current_level] = c

\* the two members of a two-member session vote for each other, one right
\* after the other, as the first two votes of the session
MutualVotesStep ==
    /\ last.op = "process_vote"
    /\ VoteStep
    /\ nvotes = 1
    /\ nvotes' = 2
    /\ Len(members) = 2
    /\ {last.a, last.b} = Range(members)
    /\ last.a # last.b
    /\ last'.a = last.b
    /\ last'.b = last.a

FirstOfTwoVoteStep ==
    /\ LiveVoteStep
    /\ nvotes' = nvotes + 1
    /\ Len(members) = 2
    /\ Len(active_candidates) = 2
    /\ Range(active_candidates) = Range(members)
    /\ votes = EmptyDict
    /\ {last'.a, last'.b} = Range(members)
    /\ last'.a # last'.b

PauseResumeStep == last'.op \in {"admin_pause_fractal", "admin_resume_fractal"}

\* C26: admin_pause_fractal and admin_resume_fractal change nothing but the
\* paused flag; pausing a paused session and resuming a session that is not
\* paused are refused and change nothing at all.
C26_PauseResumeFrame ==
    [][PauseResumeStep =>
         /\ SessionUnchanged
         /\ registered' = registered
         /\ last'.op = "admin_pause_fractal" =>
               IF paused = "true"
               THEN last'.out = "rejected" /\ paused' = paused
               ELSE last'.out = "ok" /\ paused' = "true"
         /\ last'.op = "admin_resume_fractal" =>
               IF paused # "true"
               THEN last'.out = "rejected" /\ paused' = paused
               ELSE last'.out = "ok" /\ paused' = "false"]_vars

\* a paused round with a recorded winner and a vote in the ledger has been
\* resumed
C26_Witness ==
    /\ last.op = "admin_resume_fractal"
    /\ last.out = "ok"
    /\ paused = "false"
    /\ registered
    /\ votes # EmptyDict
    /\ winners # EmptyDict

\* a second admin_pause_fractal on a paused round has been refused
C26_WitnessRedundant ==
    /\ last.op = "admin_pause_fractal"
    /\ last.out = "rejected"
    /\ paused = "true"
    /\ votes # EmptyDict

\* ------------------------------------------------------ the facilitator
\* SpecFacilitator: votes, admin_remove_member and admin_change_facilitator
\* on the registered session.  The facilitator of a new group is the user
\* who ran the start command (user 1 in every initial state).

\* admin_change_facilitator, line 489
change_facilitator(g, user) == [g EXCEPT !.facilitator = user]

\* admin_change_facilitator without the membership test
ChangeFacilitatorUnchecked ==
    /\ CommandGuard
    /\ \E user \in Users :
         Command(change_facilitator(Group, user), "admin_change_facilitator", user, "ok")

ChangeFacilitator ==
    /\ CommandGuard
    /\ \E user \in Users :
         IF user \notin Range(members)
         THEN Command(Group, "admin_change_facilitator", user, "rejected")
         ELSE Command(change_facilitator(Group, user), "admin_change_facilitator", user, "ok")

NextFacilitator ==
    \/ StartFractal
    \/ CastVote
    \/ RemoveMember
    \/ ChangeFacilitator

SpecFacilitator == Init /\ [][NextFacilitator]_vars

\* admin_change_facilitator has run
ChangeFacilitatorStep == last'.op = "admin_change_facilitator"

\* C27: admin_change_facilitator makes the named user the facilitator only
\* when that user is a member; otherwise it is refused and the facilitator
\* stays; either way members, pool, ledger, level and winners are unchanged.
C27_FacilitatorFromMembers ==
    [][ChangeFacilitatorStep =>
         /\ SessionUnchanged
         /\ paused' = paused
         /\ registered' = registered
         /\ IF last'.a \in Range(members)
            THEN last'.out = "ok" /\ facilitator' = last'.a
            ELSE last'.out = "rejected" /\ facilitator' = facilitator]_vars

\* a removed member has been refused as facilitator of a round that holds a
\* vote
C27_Witness ==
    /\ last.op = "admin_change_facilitator"
    /\ last.out = "rejected"
    /\ last.a \notin Range(members)
    /\ last.a \in buttons
    /\ facilitator # last.a
    /\ votes # EmptyDict
    /\ registered

\* member 3 has taken over from user 1
C27_WitnessAccepted ==
    /\ last.op = "admin_change_facilitator"
    /\ last.out = "ok"
    /\ facilitator = 3
    /\ 3 \in Range(members)
    /\ votes # EmptyDict

\* ------------------------------------------------------ two sessions
\* SpecSessions: the session followed so far and a second one in another
\* thread of the same cog.  FractalNameModal.on_submit hands the list of its
\* MemberConfirmationView to FractalGroup, so two sessions started from one
\* confirmation hold the same list; sessions of two confirmations hold a
\* list each.  The second session takes votes; the first takes every
\* operation of Next.

\* FractalNameModal.on_submit for the second session: FractalGroup(...) on
\* the list ms, then start_fractal
NewSibling(ms, same_confirmation) ==
    [shares_members |-> same_confirmation,
     group |-> start_new_round([members |-> ms, active_candidates |-> ms,
                                votes |-> EmptyDict, winners |-> EmptyDict,
                                current_level |-> TopLevel, paused |-> "unset",
                                facilitator |-> 1, registered |-> TRUE,
                                buttons |-> {}, final_ranking |-> <<>>,
                                rankings_lines |-> <<>>],
                               None)]

InitSessions ==
    /\ \E n \in 2..MaxUsers : members = [i \in 1..n |-> i]
    /\ active_candidates = members
    /\ votes = EmptyDict
    /\ winners = EmptyDict
    /\ current_level = TopLevel
    /\ paused = "unset"
    /\ facilitator = 1
    /\ \E same_confirmation \in BOOLEAN :
         sibling = NewSibling(members, same_confirmation)
    /\ timer = NoTimer
    /\ registered = TRUE
    /\ buttons = {}
    /\ final_ranking = <<>>
    /\ rankings_lines = <<>>
    /\ started = FALSE
    /\ nvotes = 0
    /\ nadmin = 0
    /\ pending = {}
    /\ last = [op |-> "init", a |-> None, b |-> None, out |-> "ok"]

\* vote_callback on a voting message of the second session's thread
SiblingVote ==
    /\ started
    /\ nvotes < MaxVotes
    /\ \E voter \in Users, candidate \in sibling.group.buttons :
         \E g \in process_vote(sibling.group, voter, candidate) :
            /\ sibling' = [sibling EXCEPT !.group = g]
            /\ members' = IF sibling.shares_members THEN g.members ELSE members
            /\ last' = [op |-> "sibling_process_vote", a |-> voter, b |-> candidate,
                        out |-> "ok"]
    /\ nvotes' = nvotes + 1
    /\ UNCHANGED <<active_candidates, votes, winners, current_level, paused,
                   facilitator, timer, registered, buttons, final_ranking,
                   rankings_lines, started, nadmin, pending>>

NextSessions ==
    \/ Next
    \/ SiblingVote

SpecSessions == InitSessions /\ [][NextSessions]_vars

\* what the claims observe of the second session
SiblingSession ==
    [members |-> sibling.group.members,
     active_candidates |-> sibling.group.active_candidates,
     votes |-> sibling.group.votes,
     winners |-> sibling.group.winners,
     current_level |-> sibling.group.current_level]

SiblingStep == last'.op = "sibling_process_vote"

\* C28: an operation on one session leaves members, pool, ledger, level and
\* winners of the other session as they were, also when both sessions were
\* started from the same member confirmation.
C28_SessionsIndependent ==
    [][IF SiblingStep THEN SessionUnchanged
                      ELSE SiblingSession' = SiblingSession]_vars


\* ------------------------------------------------------ Respect points
\* the session has completed with a ranking of seven places
SevenRanked == ~registered /\ Len(final_ranking) = 7

\* C29: the Respect of final-ranking position i (counted from 0) is
\* 110, 68, 42, 26, 16, 10 for i = 0..5 and 0 for every i >= 6.
C29_RespectByPosition ==
    /\ Len(rankings_lines) = Len(final_ranking)
    /\ \A i \in 0..(Len(final_ranking) - 1) :
         rankings_lines[i + 1] = CASE i = 0 -> 110
                                   [] i = 1 -> 68
                                   [] i = 2 -> 42
                                   [] i = 3 -> 26
                                   [] i = 4 -> 16
                                   [] i = 5 -> 10
                                   [] OTHER -> 0

\* seven members have been ranked: the seventh line carries 0, the sixth 10
C29_Witness ==
    /\ SevenRanked
    /\ rankings_lines[7] = 0
    /\ rankings_lines[6] = 10
    /\ rankings_lines[1] = 110


\* ------------------------------------------------------ the winners map
RestartedStep == last'.op = "admin_restart_fractal"

LastCandidateStep == AdvanceStep /\ Len(active_candidates') = 1

\* C31: an advance that leaves exactly one candidate records that candidate
\* as winner of the new, lower level without a vote, and the ranking posted
\* lists the winners by descending level, that candidate last.
C31_LastCandidateRanked ==
    [][LastCandidateStep =>
        /\ current_level' = current_level - 1
        /\ current_level' \in DOMAIN winners'
        /\ winners'[current_level'] = active_candidates'[1]
        /\ buttons' = buttons
        /\ ~registered'
        /\ ByDescendingLevel(final_ranking', winners')
        /\ final_ranking'[Len(final_ranking')] = active_candidates'[1]]_vars


\* two votes gave level 6, a declared winner took level 5, and the one
\* candidate left was ranked third at level 4
C31_Witness ==
    /\ last.op = "admin_declare_winner"
    /\ last.out = "ok"
    /\ ~registered
    /\ nvotes >= 2
    /\ Len(active_candidates) = 1
    /\ current_level = TopLevel - 2
    /\ winners[TopLevel - 2] = active_candidates[1]
    /\ final_ranking = <<winners[TopLevel], last.a, active_candidates[1]>>


\* ------------------------------------------------------ failing announcements
\* SpecAnnounce: votes and admin_declare_winner on the registered session,
\* where the thread.send calls of an advance may raise (discord.HTTPException).
\* start_new_round has recorded the winner, shrunk the pool and lowered the
\* level before its "LEVEL n WINNER" send at line 68, which no try guards.

DeclareWinner ==
    /\ CommandGuard
    /\ \E user \in Users :
         IF user \notin Range(active_candidates)
         THEN Command(Group, "admin_declare_winner", user, "rejected")
         ELSE Command(start_new_round(Group, user), "admin_declare_winner", user, "ok")

\* admin_declare_winner ending in its except clause: the send of line 364
\* raised (nothing done yet), or the send inside start_new_round raised
DeclareWinnerAnnounceFails ==
    /\ CommandGuard
    /\ \E user \in Range(active_candidates) :
         \/ Command(Group, "admin_declare_winner", user, "error")
         \/ Command(record_winner(Group, user), "admin_declare_winner", user, "error")

\* vote_callback ending in its except clause: the vote was written, the
\* check found a winner, and the send inside start_new_round raised
VoteWinnerAnnounceFails ==
    /\ started
    /\ nvotes < MaxVotes
    /\ \E voter \in Users, candidate \in buttons :
         LET g == write_vote(Group, voter, candidate)
         IN /\ max_votes(g) >= get_vote_threshold(g)
            /\ \E winner_id \in winners_with_max_votes(g) :
                 /\ get_active(g, winner_id) # None
                 /\ Commit(record_winner(g, get_active(g, winner_id)))
            /\ last' = [op |-> "process_vote", a |-> voter, b |-> candidate,
                        out |-> "error"]
    /\ nvotes' = nvotes + 1
    /\ UNCHANGED <<started, nadmin, pending>>

NextAnnounce ==
    \/ StartFractal
    \/ CastVote
    \/ DeclareWinner
    \/ DeclareWinnerAnnounceFails
    \/ VoteWinnerAnnounceFails

SpecAnnounce == Init /\ [][NextAnnounce]_vars

\* a handler has ended in its except clause
ErrorStep == last'.out = "error" /\ last'.op \in {"admin_declare_winner", "process_vote"}

\* C32: an advance whose announcement fails leaves the session as it was
\* before the command: never the winner recorded and the level lowered with
\* the ledger of the round still in place and no new round opened.
C32_AdvanceAtomic ==
    [][ErrorStep =>
         /\ members' = members
         /\ active_candidates' = active_candidates
         /\ winners' = winners
         /\ current_level' = current_level]_vars


\* ------------------------------------------------------ the smallest sessions
\* start_fractal has run
StartStep == last'.op = "start_fractal" /\ started' /\ ~started

\* C33: start_fractal on a member list of at most one member completes the
\* session at once and posts no voting message; a single member is recorded
\* at level 6 and is the whole final ranking.
C33_StartOfOneCompletes ==
    [][(StartStep /\ Len(members) <= 1) =>
         /\ ~registered'
         /\ buttons' = {}
         /\ votes' = EmptyDict
         /\ current_level' = TopLevel
         /\ members' = members
         /\ IF Len(members) = 1
            THEN winners' = (TopLevel :> members[1]) /\ final_ranking' = <<members[1]>>
            ELSE winners' = EmptyDict /\ final_ranking' = <<>>]_vars

\* a session of one member has been started
C33_Witness ==
    /\ last.op = "start_fractal"
    /\ members = <<1>>
    /\ ~registered
    /\ final_ranking = <<1>>
    /\ winners = (TopLevel :> 1)

\* a session of no member has been started
C33_WitnessEmpty ==
    /\ last.op = "start_fractal"
    /\ members = <<>>
    /\ ~registered
    /\ final_ranking = <<>>


\* ------------------------------------------------------ membership changes
\* SpecMembership: votes and any number of admin_add_member and
\* admin_remove_member on the registered session.

AddMember ==
    /\ CommandGuard
    /\ \E user \in Users :
         IF user \in Range(members)
         THEN Command(Group, "admin_add_member", user, "rejected")
         ELSE Command(add_member(Group, user), "admin_add_member", user, "ok")

NextMembership ==
    \/ StartFractal
    \/ CastVote
    \/ AddMember
    \/ RemoveMember

SpecMembership == Init /\ [][NextMembership]_vars

AddStep == last'.op = "admin_add_member"

\* occurrences of x in list s
Count(s, x) == Cardinality({i \in DOMAIN s : s[i] = x})

\* C34: admin_add_member of a user who is no member puts the user in members
\* and in the pool exactly once, level, ledger and winners unchanged; of a
\* member it is rejected and changes nothing.  A recorded winner is never put
\* back in the pool.
C34_AddMember ==
    [][AddStep =>
         /\ votes' = votes
         /\ winners' = winners
         /\ current_level' = current_level
         /\ IF last'.a \in Range(members)
            THEN /\ last'.out = "rejected"
                 /\ members' = members
                 /\ active_candidates' = active_candidates
            ELSE /\ last'.out = "ok"
                 /\ Count(members', last'.a) = 1
                 /\ Count(active_candidates', last'.a) = 1
         /\ \A w \in Range(winners) :
               w \notin Range(active_candidates) => w \notin Range(active_candidates')]_vars


\* ------------------------------------------------------ overlapping advances
\* SpecOverlap: process_vote split at its awaits as in SpecAsync, and
\* start_new_round split at the "LEVEL n WINNER" send of line 68: the winner
\* is recorded, the pool shrunk and the level lowered before the send, the
\* end test and the ledger reset (lines 73-79) come after it.  A call
\* suspended at that send is kept in pending with the ledger it counted.

Advancing(p) == "counted" \in DOMAIN p

\* process_vote resumed: check_for_winner up to the send of line 68
VoteCheckAdvance ==
    /\ \E p \in pending :
         /\ ~Advancing(p)
         /\ IF max_votes(Group) >= get_vote_threshold(Group)
            THEN \E winner_id \in winners_with_max_votes(Group) :
                   IF get_active(Group, winner_id) # None
                   THEN /\ Commit(record_winner(Group, get_active(Group, winner_id)))
                        /\ pending' = (pending \ {p}) \cup
                               {[voter |-> p.voter, candidate |-> p.candidate,
                                 written |-> p.written, counted |-> votes]}
                   ELSE /\ Commit(Group)
                        /\ pending' = pending \ {p}
            ELSE /\ Commit(Group)
                 /\ pending' = pending \ {p}
         /\ last' = [op |-> "check_for_winner", a |-> p.voter,
                     b |-> p.candidate, out |-> "ok"]
    /\ UNCHANGED <<started, nvotes, nadmin>>

\* start_new_round resumed after the send: lines 73-105
AdvanceResumes ==
    /\ \E p \in pending :
         /\ Advancing(p)
         /\ Commit(IF reached_end(Group) THEN end_fractal(Group) ELSE open_round(Group))
         /\ pending' = pending \ {p}
         /\ last' = [op |-> "start_new_round", a |-> p.voter,
                     b |-> p.candidate, out |-> "ok"]
    /\ UNCHANGED <<started, nvotes, nadmin>>

NextOverlap ==
    \/ StartFractal
    \/ VoteWrite
    \/ VoteCheckAdvance
    \/ AdvanceResumes

SpecOverlap == Init /\ [][NextOverlap]_vars

\* a resolution check runs while an earlier advance has not yet reached its
\* ledger reset
OverlappingCheckStep ==
    /\ last'.op = "check_for_winner"
    /\ \E p \in pending : ~Advancing(p) /\ p \notin pending'
    /\ \E q \in pending : Advancing(q)

\* C35: of two overlapping votes whose checks both run before the ledger is
\* cleared, the second check records no winner and lowers no level.
C35_OneLedgerOneRound ==
    [][OverlappingCheckStep =>
         /\ winners' = winners
         /\ current_level' = current_level]_vars


\* ------------------------------------------------------ member votes only
\* SpecMemberVotes: a session on which nothing happens but votes of current
\* members for active candidates, one process_vote call at a time.  The
\* buttons of a voting message stay usable after the session has completed.

MemberVote ==
    /\ started
    /\ nvotes < MaxVotes
    /\ \E voter \in Range(members), candidate \in Range(active_candidates) \cap buttons :
         \E g \in process_vote(Group, voter, candidate) :
            /\ Commit(g)
            /\ last' = [op |-> "process_vote", a |-> voter, b |-> candidate, out |-> "ok"]
    /\ nvotes' = nvotes + 1
    /\ UNCHANGED <<started, nadmin, pending>>

NextMemberVotes ==
    \/ StartFractal
    \/ MemberVote

SpecMemberVotes == Init /\ [][NextMemberVotes]_vars

\* candidates whose tally in ledger vs meets the threshold
AtThreshold(vs) == {c \in Range(vs) : Tally(vs, c) >= Threshold(Len(members))}

\* C36: in serialized runs of member votes for active candidates, at every
\* resolution check at most one candidate has a tally >= threshold: the
\* tie-break is never drawn.
C36_NoTieAtCheck ==
    [][VoteStep => Cardinality(AtThreshold(LedgerAfterWrite)) <= 1]_vars


\* ------------------------------------------------------ tallies at rest
\* C37: between operations on a registered session no active candidate holds
\* a tally >= threshold(len(members)), also after admin_remove_member,
\* admin_reset_votes and admin_restart_fractal.
C37_NoQualifyingTallyAtRest ==
    (started /\ registered) =>
        \A c \in Range(active_candidates) :
            Tally(votes, c) < Threshold(Len(members))


\* ------------------------------------------------------ the facilitator's membership
\* C38: the facilitator of a registered session is one of its members, after
\* any sequence of admin_change_facilitator and membership changes.
C38_FacilitatorIsMember ==
    (started /\ registered) => facilitator \in Range(members)


\* ------------------------------------------------------ the presentation timer
\* SpecTimer: one PresentationTimer (cogs/timer.py) with its control buttons
\* and its countdown tasks; no fractal session is open.  Time is counted in
\* ticks: remaining stands for end_timestamp - int(time.time()), and a
\* speaker's time is MaxTicks ticks.  asyncio runs one task at a time and
\* switches tasks at awaits only, so each action below is the code between
\* two awaits that suspend.
\*   sleeping   countdown tasks suspended in asyncio.sleep
\*   advancing  advance() calls suspended in their awaits (lines 151-168),
\*              each of which ends by creating a countdown task
\*   finishing  advance() calls past the last speaker, suspended before
\*              self.stopped = True (lines 134-143)
\*   elapsed    ticks the current speaker has had the floor unpaused (kept
\*              for the claims; the program has no such field)

fractal_vars == <<members, active_candidates, votes, winners, current_level,
                  paused, facilitator, sibling, registered, buttons,
                  final_ranking, rankings_lines, started, nvotes, nadmin,
                  pending, last>>

InitTimer ==
    /\ members = <<>>
    /\ active_candidates = <<>>
    /\ votes = EmptyDict
    /\ winners = EmptyDict
    /\ current_level = TopLevel
    /\ paused = "unset"
    /\ facilitator = 1
    /\ sibling = NoSibling
    /\ registered = FALSE
    /\ buttons = {}
    /\ final_ranking = <<>>
    /\ rankings_lines = <<>>
    /\ started = FALSE
    /\ nvotes = 0
    /\ nadmin = 0
    /\ pending = {}
    /\ last = [op |-> "init", a |-> None, b |-> None, out |-> "ok"]
    /\ \E n \in 1..MaxSpeakers :
         timer = [started |-> FALSE, speakers |-> n, current_index |-> 0,
                  paused |-> FALSE, stopped |-> FALSE, remaining |-> 0,
                  remaining_when_paused |-> 0, sleeping |-> 0, advancing |-> 0,
                  finishing |-> 0, elapsed |-> 0, op |-> "init"]

\* PresentationTimer.is_done
is_done(t) == t.current_index >= t.speakers \/ t.stopped

\* advance() that leaves end_timestamp as it was
advance_keeps_deadline(t) ==
    IF is_done(t) THEN t
    ELSE IF t.current_index + 1 >= t.speakers
         THEN [t EXCEPT !.current_index = @ + 1, !.finishing = @ + 1, !.elapsed = 0]
         ELSE [t EXCEPT !.current_index = @ + 1, !.paused = FALSE,
                        !.advancing = @ + 1, !.elapsed = 0]

\* advance(), lines 126-148: up to its first await
advance(t) ==
    IF is_done(t) THEN t
    ELSE IF t.current_index + 1 >= t.speakers
         THEN [t EXCEPT !.current_index = @ + 1, !.finishing = @ + 1, !.elapsed = 0]
         ELSE [t EXCEPT !.current_index = @ + 1, !.remaining = MaxTicks,
                        !.paused = FALSE, !.advancing = @ + 1, !.elapsed = 0]

TimerStep(t, op) ==
    /\ timer' = [t EXCEPT !.op = op]
    /\ UNCHANGED fractal_vars

\* start(): the deadline is set, the message sent, the first countdown created
TimerStart ==
    /\ ~timer.started
    /\ TimerStep([timer EXCEPT !.started = TRUE, !.remaining = MaxTicks,
                               !.sleeping = 1], "start")

\* a second passes
Tick ==
    /\ timer.started
    /\ ~is_done(timer)
    /\ timer.remaining > -1
    /\ TimerStep([timer EXCEPT !.remaining = @ - 1,
                               !.elapsed = IF timer.paused \/ @ >= MaxTicks
                                           THEN @ ELSE @ + 1], "tick")

\* _countdown, lines 110-124: a task wakes and runs one turn of its loop
CountdownWakes ==
    /\ timer.sleeping > 0
    /\ IF is_done(timer)
       THEN TimerStep([timer EXCEPT !.sleeping = @ - 1], "countdown_ends")
       ELSE IF timer.paused
       THEN TimerStep(timer, "countdown_sleeps")
       ELSE IF timer.remaining <= 0
       THEN TimerStep([advance(timer) EXCEPT !.sleeping = @ - 1], "countdown_advance")
       ELSE TimerStep(timer, "countdown_sleeps")

\* advance(), line 170: asyncio.create_task(self._countdown())
AdvanceCompletes ==
    /\ timer.advancing > 0
    /\ TimerStep([timer EXCEPT !.advancing = @ - 1, !.sleeping = @ + 1],
                 "advance_completes")

\* advance(), line 143: self.stopped = True
AdvanceFinishes ==
    /\ timer.finishing > 0
    /\ TimerStep([timer EXCEPT !.finishing = @ - 1, !.stopped = TRUE],
                 "advance_finishes")

\* skip_btn -> skip() -> advance()
Skip ==
    /\ timer.started
    /\ TimerStep(advance(timer), "skip")

\* pause_btn -> pause()
Pause ==
    /\ timer.started
    /\ IF timer.paused \/ is_done(timer)
       THEN TimerStep(timer, "pause")
       ELSE TimerStep([timer EXCEPT !.paused = TRUE,
                          !.remaining_when_paused =
                               IF timer.remaining > 0 THEN timer.remaining ELSE 0],
                      "pause")

\* resume_btn -> resume(): a further countdown task is created
Resume ==
    /\ timer.started
    /\ timer.sleeping + timer.advancing < MaxTasks
    /\ IF ~timer.paused \/ is_done(timer)
       THEN TimerStep(timer, "resume")
       ELSE TimerStep([timer EXCEPT !.paused = FALSE,
                                    !.remaining = timer.remaining_when_paused,
                                    !.sleeping = @ + 1], "resume")

\* stop_btn -> stop()
Stop ==
    /\ timer.started
    /\ TimerStep([timer EXCEPT !.stopped = TRUE], "stop")

NextTimer ==
    \/ TimerStart
    \/ Tick
    \/ CountdownWakes
    \/ AdvanceCompletes
    \/ AdvanceFinishes
    \/ Skip
    \/ Pause
    \/ Resume
    \/ Stop

SpecTimer == InitTimer /\ [][NextTimer]_vars

\* a countdown task has found the time expired and moved to the next speaker
ExpiryStep == timer'.op = "countdown_advance" /\ timer' # timer

\* C39: an expiry of the current speaker's time moves current_index on by
\* exactly one, however many countdown tasks Skip and Pause/Resume have left
\* running: a countdown moves on only a speaker whose whole time has run.
C39_OneAdvancePerExpiry ==
    [][ExpiryStep =>
         /\ timer'.current_index = timer.current_index + 1
         /\ timer.elapsed >= MaxTicks
         /\ ~timer.paused]_vars

\* the time of a later speaker has expired while a second countdown task was
\* asleep: one task moved on, the other is still there
C39_Witness ==
    /\ timer.op = "countdown_advance"
    /\ timer.current_index >= 2
    /\ timer.sleeping >= 1
    /\ timer.advancing >= 1

\* right after an expiry the duplicate task woke and went back to sleep
C39_WitnessDuplicateSleeps ==
    /\ timer.op = "countdown_sleeps"
    /\ ~timer.paused
    /\ timer.elapsed = 0
    /\ timer.remaining = MaxTicks
    /\ timer.current_index >= 1
    /\ timer.sleeping >= 1
    /\ timer.advancing >= 1

====
